---- MODULE Spec2Model ----
(***************************************************************************)
(* Model of kawa's radio scheduler (src/src/radio.rs): start_streams, the  *)
(* PreBuffer cancel loop, the broadcast pump `play`, and the prebuild      *)
(* helpers.  The transcoder writer and the ring buffer live in modules     *)
(* that are not part of the sources at hand (transcode, ring_buffer); they *)
(* are modelled from the written specification.                            *)
(***************************************************************************)
EXTENDS Integers, Sequences, FiniteSets, TLC

VARIABLES
    streams,        \* cfg.streams: the container of each configured output
    entries,        \* Queue.entries: the operator queue, head first
    queue_prebuf,   \* start_streams local: Option<Vec<PreBuffer>>
    random_prebuf,  \* start_streams local: Vec<PreBuffer>
    prebuffers,     \* start_streams local: the set being played
    pc,             \* position of the scheduler thread in start_streams
    msg,            \* the last ApiMessage received during the current track (local `msg`)
    old_prebufs,    \* PreBuffers still to be cancelled by the handler
    pb,             \* per PreBuffer: token, ring counters, writer position
    tx,             \* RadioConn.tx: ring handles in flight to each pump
    connected,      \* the Senders of rconns are alive (start_streams has not unwound)
    pumpPc,         \* position of each pump thread in play
    buffer,         \* play local `buffer`: the ring each pump reads
    sent,           \* history: bytes each pump handed to conn.send since its last ring swap
    sendFailed,     \* history: a conn.send of this pump has failed
    updatesOpen,    \* the operator still holds a Sender of `updates`
    next,           \* Queue.next: Option<(Duration, Vec<PreBuffer>)>
    dur,            \* Queue.dur
    counter,        \* Queue.counter: the id the next transcode gets
    tries,          \* start_next_tc local `tries`
    qpc,            \* position of the thread that calls into Queue
    caller,         \* the Queue method that called start_next_tc
    tc_path,        \* start_next_tc local `path` of the last attempt
    ext,            \* start_next_tc local `ext`: the container initiate_transcode was called with
    taken,          \* the value get_next_tc returned last
    random_counter, \* get_random_prebuf local `counter`
    rpc,            \* position of the thread inside get_random_prebuf
    fetches,        \* history: requests get_random_song has sent during this call
    names           \* the names the prepared sets of this run are drawn from

(* the state of Queue (queue.rs) besides entries, and of a call of get_random_prebuf *)
queueVars == <<next, dur, counter, tries, qpc, caller, tc_path, ext, taken>>
randomVars == <<random_counter, rpc, fetches>>

vars == <<streams, entries, queue_prebuf, random_prebuf, prebuffers, pc, msg, old_prebufs,
          pb, tx, connected, pumpPc, buffer, sent, sendFailed, updatesOpen,
          queueVars, randomVars, names>>

----------------------------------------------------------------------------
(* Bounds of the model *)
MaxQueue == 2       \* queue entries at the same time
TrackLen == 2       \* bytes a transcoder output produces at most
RingCap == 1        \* capacity of a ring, in bytes
Step == 1           \* bytes one try_read takes at most

(* Names for the prepared sets whose rings are alive at the same time *)
SetNames == {"a", "b", "c"}
MoreNames == {"a", "b", "c", "d"}

(* Source locators, as their '.'-separated components *)
Paths == { <<"/b", "ogg">>, <<"/gone", "ogg">>, <<"/noext">> }

Min(a, b) == IF a < b THEN a ELSE b
SeqToSet(s) == {s[k] : k \in 1 .. Len(s)}
StreamIdx == 1 .. Len(streams)

----------------------------------------------------------------------------
(* Option<Vec<PreBuffer>>.  track and src are ghosts: the number of the set
   and the id of the queue entry it was built from (0: the random oracle) *)
None == [some |-> FALSE, track |-> "", src |-> 0, bufs |-> <<>>]
Some(t, s, b) == [some |-> TRUE, track |-> t, src |-> s, bufs |-> b]

NoRing == <<"", 0>>

(* Path::extension *)
Extension(path) == IF Len(path) > 1 THEN path[Len(path)] ELSE ""

(* File::open(&path) ... read_to_end: which locators can be read *)
FileOpens(path) == path[1] # "/gone"

(* PreBuffer::from_transcode: None for a container that is neither Ogg nor
   MP3, or when transcode::transcode fails (tcOk = FALSE) *)
FromTranscode(cfg, tcOk) == cfg \in {"ogg", "mp3"} /\ tcOk

(* initiate_transcode: None without extension or when the file cannot be
   read; otherwise the PreBuffers of the streams whose transcoder started,
   pushed in stream order.  ok is the set of streams whose transcoder
   starts; a PreBuffer is named <<set, stream it is encoded for>>. *)
InitiateTranscode(path, ok, t, src) ==
    IF Extension(path) = "" THEN None
    ELSE IF ~FileOpens(path) THEN None
    ELSE Some(t, src, SelectSeq([i \in StreamIdx |-> <<t, i>>],
                                LAMBDA p : FromTranscode(streams[p[2]], p[2] \in ok)))

(* get_queue_prebuf: try the head; on failure entries.pop() and try again *)
RECURSIVE GetQueuePrebuf(_, _, _)
GetQueuePrebuf(q, ok, t) ==
    IF q = <<>> THEN [entries |-> q, res |-> None]
    ELSE IF InitiateTranscode(q[1].path, ok, t, q[1].id).some
         THEN [entries |-> q, res |-> InitiateTranscode(q[1].path, ok, t, q[1].id)]
         ELSE GetQueuePrebuf(SubSeq(q, 1, Len(q) - 1), ok, t)

(* get_random_prebuf, as its outcome: the set of the first attempt whose
   initiate_transcode returns Some (rnd.ok: the streams whose transcoder
   started), or a panic (get_random_song unwraps a failed fetch; the
   counter reaches 100) *)
RandomOutcomes == {[panic |-> TRUE, ok |-> {}]} \cup [panic : {FALSE}, ok : SUBSET StreamIdx]
GetRandomPrebuf(rnd, t) == InitiateTranscode(<<"/a", "flac">>, rnd.ok, t, 0)

(* State of a freshly created PreBuffer: token false, empty ring (wr bytes
   written, rd bytes taken out), the transcoder thread of that output about
   to check its token.  ret and end are ghosts: cancel() has returned for
   it; how its track ended ("done": drained, "skip": skipped). *)
NewPreBuffer == [token |-> FALSE, wr |-> 0, rd |-> 0, wpc |-> "check", ret |-> FALSE, end |-> "no"]

NewPbs(set) == [p \in SeqToSet(set.bufs) |-> NewPreBuffer]

(* RingBuffer::len *)
RingLen(p) == pb[p].wr - pb[p].rd

(* a done check that does not look at the ring *)
PreBufferDoneFlagOnly(p) == pb[p].token

(* the completion test of the song activity loop *)
PreBufferDone(p) == pb[p].token /\ RingLen(p) = 0
AllDone == \A k \in 1 .. Len(prebuffers.bufs) : PreBufferDone(prebuffers.bufs[k])

(* The PreBuffers some thread other than their own transcoder still holds
   in the next state.  A PreBuffer that nobody holds can no longer be
   observed by the scheduler or a pump and is dropped from pb; one that
   cancel() was called on is kept until its transcoder has exited. *)
Held ==
    SeqToSet(queue_prebuf'.bufs) \cup SeqToSet(random_prebuf'.bufs)
      \cup SeqToSet(prebuffers'.bufs) \cup SeqToSet(old_prebufs') \cup SeqToSet(msg'.old)
      \cup UNION {SeqToSet(tx'[i]) : i \in DOMAIN tx'} \cup {buffer'[i] : i \in DOMAIN buffer'}
Drop(f) == [p \in {q \in DOMAIN f : q \in Held \/ (f[q].ret /\ f[q].wpc # "exited")} |-> f[p]]

NoMsg == [type |-> "none", qe |-> 0, old |-> <<>>]
Msg(t, qe, old) == [type |-> t, qe |-> qe, old |-> old]

(* Queue.next.  qid is the value of Queue.counter the set was built under,
   from tells which source it was built from *)
NoNext == [some |-> FALSE, dur |-> 0, qid |-> 0, from |-> ""]
SomeNext(d, id, f) == [some |-> TRUE, dur |-> d, qid |-> id, from |-> f]

----------------------------------------------------------------------------
InitWith(cfgStreams, pool) ==
    /\ streams = cfgStreams
    /\ names = pool
    /\ entries = <<>>
    /\ queue_prebuf = None
    /\ random_prebuf = None
    /\ prebuffers = None
    /\ pc = "start"
    /\ msg = NoMsg
    /\ old_prebufs = <<>>
    /\ pb = <<>>
    /\ tx = [i \in 1 .. Len(cfgStreams) |-> <<>>]
    /\ connected = FALSE
    /\ pumpPc = [i \in 1 .. Len(cfgStreams) |-> "unborn"]
    /\ buffer = [i \in 1 .. Len(cfgStreams) |-> NoRing]
    /\ sent = [i \in 1 .. Len(cfgStreams) |-> <<>>]
    /\ sendFailed = [i \in 1 .. Len(cfgStreams) |-> FALSE]
    /\ updatesOpen = TRUE
    /\ next = NoNext
    /\ dur = 0
    /\ counter = 0
    /\ tries = 0
    /\ qpc = "idle"
    /\ caller = ""
    /\ tc_path = <<>>
    /\ ext = ""
    /\ taken = NoNext
    /\ random_counter = 0
    /\ rpc = "idle"
    /\ fetches = 0

(* a single output *)
Init == InitWith(<<"ogg">>, SetNames)

----------------------------------------------------------------------------
(* The scheduler thread: start_streams *)

pumpVars == <<pumpPc, buffer, sent, sendFailed>>

(* a panic unwinds start_streams: its locals and rconns, and with rconns
   every Sender, are dropped *)
Panic ==
    /\ pc' = "panicked"
    /\ connected' = FALSE
    /\ queue_prebuf' = None
    /\ random_prebuf' = None
    /\ prebuffers' = None
    /\ old_prebufs' = <<>>

(* Names of sets.  A set gets a name no live set or ring bears; a build
   needs a free name. *)
UsedTracks == {p[1] : p \in DOMAIN pb}
                \cup {queue_prebuf.track, random_prebuf.track, prebuffers.track}
FreeTracks == names \ UsedTracks
FreshTrack == IF FreeTracks = {} THEN "" ELSE CHOOSE t \in FreeTracks : TRUE
CanBuild(set) == set.some => FreshTrack # ""

(* lines 188-199: the two initial prebuilds, then one pump thread per stream *)
Start ==
    /\ pc = "start"
    /\ \E rnd \in RandomOutcomes, ok \in SUBSET StreamIdx :
        IF rnd.panic
        THEN /\ Panic
             /\ UNCHANGED <<entries, pumpPc, msg>>
             /\ pb' = pb
        ELSE LET rset == GetRandomPrebuf(rnd, FreshTrack)
                 r == GetQueuePrebuf(entries, ok, CHOOSE t \in FreeTracks : t # FreshTrack)
             IN /\ random_prebuf' = rset
                /\ queue_prebuf' = r.res
                /\ entries' = r.entries
                /\ pumpPc' = [i \in StreamIdx |-> "recv"]
                /\ connected' = TRUE
                /\ pc' = "boundary"
                /\ UNCHANGED <<prebuffers, old_prebufs, msg>>
                /\ pb' = pb @@ NewPbs(rset) @@ NewPbs(r.res)
    /\ UNCHANGED <<queueVars, randomVars, names, streams, tx, buffer, sent, sendFailed, updatesOpen>>

(* a promotion that takes the entry off the wrong end *)
RemoveLast(q) == SubSeq(q, 1, Len(q) - 1)

(* line 203: entries.remove(0) *)
RemoveFirst(q) == Tail(q)

(* lines 211-213: rconns.iter_mut().zip(prebuffers.iter()), replace_buffer *)
ReplaceBuffers(chan, set) ==
    [i \in DOMAIN chan |-> IF i <= Len(set.bufs) THEN Append(chan[i], set.bufs[i]) ELSE chan[i]]

(* lines 200-213: choose the next set, rebuild the slot it came from, hand
   the rings to the pumps *)
Promote ==
    /\ pc = "boundary"
    /\ UNCHANGED <<queueVars, randomVars, names, streams, updatesOpen>>
    /\ UNCHANGED pumpVars
    /\ IF queue_prebuf.some
       THEN IF entries = <<>>
            THEN /\ Panic      \* entries.remove(0) on an empty Vec
                 /\ UNCHANGED <<entries, tx, msg>>
                 /\ pb' = Drop(pb)
            ELSE \E ok \in SUBSET StreamIdx :
                   LET r == GetQueuePrebuf(RemoveFirst(entries), ok, FreshTrack)
                   IN /\ CanBuild(r.res)
                      /\ entries' = r.entries
                      /\ queue_prebuf' = r.res
                      /\ prebuffers' = queue_prebuf
                      /\ tx' = ReplaceBuffers(tx, queue_prebuf)
                      /\ pc' = "song"
                      /\ msg' = NoMsg
                      /\ UNCHANGED <<random_prebuf, connected, old_prebufs>>
                      /\ pb' = Drop(pb @@ NewPbs(r.res))
       ELSE \E rnd \in RandomOutcomes :
              IF rnd.panic
              THEN /\ Panic
                   /\ UNCHANGED <<entries, tx, msg>>
                   /\ pb' = Drop(pb)
              ELSE LET rset == GetRandomPrebuf(rnd, FreshTrack)
                   IN /\ CanBuild(rset)
                      /\ prebuffers' = random_prebuf
                      /\ random_prebuf' = rset
                      /\ tx' = ReplaceBuffers(tx, random_prebuf)
                      /\ pc' = "song"
                      /\ msg' = NoMsg
                      /\ UNCHANGED <<entries, queue_prebuf, connected, old_prebufs>>
                      /\ pb' = Drop(pb @@ NewPbs(rset))

(* the current set's PreBuffers, marked with how their track ended *)
Ended(how) ==
    [p \in DOMAIN pb |-> IF p \in SeqToSet(prebuffers.bufs) THEN [pb[p] EXCEPT !.end = how]
                                                           ELSE pb[p]]

(* lines 219-224: the completion test at the top of the song activity loop *)
SongCheck ==
    /\ pc = "song"
    /\ pc' = IF AllDone THEN "boundary" ELSE "recv"
    /\ pb' = IF AllDone THEN Ended("done") ELSE pb
    /\ UNCHANGED <<queueVars, randomVars, names, streams, entries, queue_prebuf, random_prebuf, prebuffers, msg, old_prebufs,
                   tx, connected, updatesOpen>>
    /\ UNCHANGED pumpVars

(* lines 225, 291-293: try_recv returns Err(Empty): sleep, next iteration *)
NoMessage ==
    /\ pc = "recv"
    /\ pc' = "song"
    /\ UNCHANGED <<queueVars, randomVars, names, streams, entries, queue_prebuf, random_prebuf, prebuffers, msg, old_prebufs,
                   pb, tx, connected, updatesOpen>>
    /\ UNCHANGED pumpVars

(* lines 225, 291-293: the operator has dropped its Sender; try_recv returns
   Err(Disconnected), which `if let Ok(msg)` treats like Empty *)
Disconnected ==
    /\ pc = "recv"
    /\ updatesOpen
    /\ updatesOpen' = FALSE
    /\ pc' = "song"
    /\ UNCHANGED <<queueVars, randomVars, names, streams, entries, queue_prebuf, random_prebuf, prebuffers, msg, old_prebufs,
                   pb, tx, connected>>
    /\ UNCHANGED pumpVars

(* lines 227-232 *)
HandleSkip ==
    /\ pc = "recv"
    /\ updatesOpen
    /\ msg' = Msg("Skip", 0, <<>>)
    /\ pb' = [p \in DOMAIN pb |-> [Ended("skip")[p] EXCEPT
                 !.token = IF p \in SeqToSet(prebuffers.bufs) THEN TRUE ELSE @]]
    /\ pc' = "boundary"
    /\ UNCHANGED <<queueVars, randomVars, names, streams, entries, queue_prebuf, random_prebuf, prebuffers, old_prebufs,
                   tx, connected, updatesOpen>>
    /\ UNCHANGED pumpVars

(* a push that never counts as the first *)
OnlyEntryNever(q) == FALSE

(* line 257: `if q.len() == 1`, the pushed entry is the only one *)
OnlyEntry(q) == Len(q) = 1

(* a Remove(Tail) that also gives up the prepared set when one entry is left *)
NowEmptyOrSingle(q) == Len(q) <= 1

(* line 281: `if q.len() == 0`, the pop emptied the queue *)
NowEmpty(q) == Len(q) = 0

(* the handler goes on to cancel the PreBuffers of `old`, then resumes at `resume` *)
CancelAll(old, resume) ==
    /\ old_prebufs' = old
    /\ pc' = IF old = <<>> THEN resume ELSE "cancel_store"

(* a Clear that takes the set being played *)
TakenCurrent == prebuffers.bufs

(* line 235: mem::replace(&mut queue_prebuf, None), the PreBuffers taken *)
TakenQueuePrebuf == queue_prebuf.bufs

(* lines 233-238: take queue_prebuf and cancel its PreBuffers *)
HandleClear ==
    /\ pc = "recv"
    /\ updatesOpen
    /\ msg' = Msg("Clear", 0, TakenQueuePrebuf)
    /\ queue_prebuf' = None
    /\ CancelAll(TakenQueuePrebuf, "clear")
    /\ UNCHANGED <<queueVars, randomVars, names, streams, entries, random_prebuf, prebuffers, pb, tx,
                   connected, updatesOpen>>
    /\ UNCHANGED pumpVars

(* line 239: queue.lock().unwrap().clear() *)
ClearQueue ==
    /\ pc = "clear"
    /\ entries' = <<>>
    /\ pc' = "song"
    /\ msg' = [msg EXCEPT !.old = <<>>]
    /\ UNCHANGED <<queueVars, randomVars, names, streams, queue_prebuf, random_prebuf, prebuffers, old_prebufs,
                   tx, connected, updatesOpen>>
    /\ UNCHANGED pumpVars
    /\ pb' = Drop(pb)

(* the old queue_prebuf is unwrapped and cancelled; unwrap of None panics *)
UnwrapAndCancel(type, qe) ==
    IF queue_prebuf.some
    THEN /\ CancelAll(queue_prebuf.bufs, "song")
         /\ msg' = Msg(type, qe, queue_prebuf.bufs)
         /\ UNCHANGED <<connected, random_prebuf, prebuffers>>
    ELSE /\ pc' = "panicked"
         /\ connected' = FALSE
         /\ random_prebuf' = None
         /\ prebuffers' = None
         /\ old_prebufs' = <<>>
         /\ msg' = Msg(type, qe, <<>>)

(* lines 241-253: insert at 0, rebuild queue_prebuf, unwrap and cancel the old one *)
HandleInsertHead(qe) ==
    /\ pc = "recv"
    /\ updatesOpen
    /\ \E ok \in SUBSET StreamIdx :
         LET r == GetQueuePrebuf(<<qe>> \o entries, ok, FreshTrack)
         IN /\ CanBuild(r.res)
            /\ entries' = r.entries
            /\ queue_prebuf' = IF queue_prebuf.some THEN r.res ELSE None
            /\ UnwrapAndCancel("InsertHead", qe.id)
            /\ UNCHANGED <<queueVars, randomVars, names, streams, tx, updatesOpen>>
            /\ UNCHANGED pumpVars
            /\ pb' = Drop(pb @@ NewPbs(r.res))

(* lines 254-261: push; build queue_prebuf when the entry is the only one *)
HandleInsertTail(qe) ==
    /\ pc = "recv"
    /\ updatesOpen
    /\ msg' = Msg("InsertTail", qe.id, <<>>)
    /\ pc' = "song"
    /\ UNCHANGED <<queueVars, randomVars, names, streams, random_prebuf, prebuffers, old_prebufs, tx, connected, updatesOpen>>
    /\ UNCHANGED pumpVars
    /\ IF OnlyEntry(Append(entries, qe))
       THEN \E ok \in SUBSET StreamIdx :
              LET r == GetQueuePrebuf(Append(entries, qe), ok, FreshTrack)
              IN /\ CanBuild(r.res)
                 /\ entries' = r.entries
                 /\ queue_prebuf' = r.res
                 /\ pb' = Drop(pb @@ NewPbs(r.res))
       ELSE /\ entries' = Append(entries, qe)
            /\ UNCHANGED <<queue_prebuf, pb>>

(* lines 262-275: remove position 0, rebuild queue_prebuf, unwrap and cancel the old one *)
HandleRemoveHead ==
    /\ pc = "recv"
    /\ updatesOpen
    /\ UNCHANGED <<queueVars, randomVars, names, streams, tx, updatesOpen>>
    /\ UNCHANGED pumpVars
    /\ IF Len(entries) > 0
       THEN \E ok \in SUBSET StreamIdx :
              LET r == GetQueuePrebuf(Tail(entries), ok, FreshTrack)
              IN /\ CanBuild(r.res)
                 /\ entries' = r.entries
                 /\ queue_prebuf' = IF queue_prebuf.some THEN r.res ELSE None
                 /\ UnwrapAndCancel("RemoveHead", 0)
                 /\ pb' = Drop(pb @@ NewPbs(r.res))
       ELSE /\ pc' = "song"
            /\ msg' = Msg("RemoveHead", 0, <<>>)
            /\ UNCHANGED <<entries, queue_prebuf, random_prebuf, prebuffers, pb,
                           old_prebufs, connected>>

(* lines 276-289: pop; when the queue is now empty take queue_prebuf and cancel it *)
HandleRemoveTail ==
    /\ pc = "recv"
    /\ updatesOpen
    /\ entries' = IF Len(entries) > 0 THEN SubSeq(entries, 1, Len(entries) - 1) ELSE entries
    /\ IF NowEmpty(entries')
       THEN /\ queue_prebuf' = None
            /\ CancelAll(queue_prebuf.bufs, "song")
            /\ msg' = Msg("RemoveTail", 0, queue_prebuf.bufs)
       ELSE /\ pc' = "song"
            /\ msg' = Msg("RemoveTail", 0, <<>>)
            /\ UNCHANGED <<queue_prebuf, old_prebufs>>
    /\ UNCHANGED <<queueVars, randomVars, names, streams, random_prebuf, prebuffers, pb, tx, connected,
                   updatesOpen>>
    /\ UNCHANGED pumpVars

(* PreBuffer::cancel, line 55: token.store(true) for the PreBuffer at the head of old_prebufs *)
CancelStore ==
    /\ pc = "cancel_store"
    /\ pb' = [pb EXCEPT ![Head(old_prebufs)].token = TRUE]
    /\ pc' = "cancel_loop"
    /\ UNCHANGED <<queueVars, randomVars, names, streams, entries, queue_prebuf, random_prebuf, prebuffers, msg, old_prebufs,
                   tx, connected, updatesOpen>>
    /\ UNCHANGED pumpVars

(* a drain loop that never sees the ring empty *)
HasBytesAlways(p) == TRUE

(* line 57: self.buffer.len() > 0 *)
HasBytes(p) == RingLen(p) > 0

(* PreBuffer::cancel, lines 56-62: one iteration of the drain loop; on an
   empty ring cancel returns and the handler goes on *)
CancelLoop ==
    /\ pc = "cancel_loop"
    /\ UNCHANGED <<queueVars, randomVars, names, streams, entries, queue_prebuf, random_prebuf, prebuffers,
                   tx, connected, updatesOpen>>
    /\ UNCHANGED pumpVars
    /\ LET p == Head(old_prebufs)
       IN IF HasBytes(p)
          THEN /\ pb' = [pb EXCEPT ![p].rd = @ + Min(Step, RingLen(p))]
               /\ UNCHANGED <<pc, old_prebufs, msg>>
          ELSE /\ old_prebufs' = Tail(old_prebufs)
               /\ pc' = IF Tail(old_prebufs) # <<>> THEN "cancel_store"
                        ELSE IF msg.type = "Clear" THEN "clear" ELSE "song"
               /\ msg' = IF Tail(old_prebufs) # <<>> \/ msg.type = "Clear" THEN msg
                         ELSE [msg EXCEPT !.old = <<>>]
               /\ pb' = Drop([pb EXCEPT ![p].ret = TRUE])

(* the entries the operator may insert: a fresh id, any locator *)
UsedIds == {entries[k].id : k \in 1 .. Len(entries)}
             \cup {queue_prebuf.src, random_prebuf.src, prebuffers.src}
FreshId == CHOOSE n \in 1 .. MaxQueue + 2 : n \notin UsedIds /\ \A m \in 1 .. n - 1 : m \in UsedIds
NewEntries == IF Len(entries) < MaxQueue THEN {[id |-> FreshId, path |-> p] : p \in Paths} ELSE {}

(* initiate_transcode returns a set for this locator *)
Transcodes(path) == Extension(path) # "" /\ FileOpens(path)

(* the entries among them whose source can be read and has an extension *)
UsableEntries == {qe \in NewEntries : Transcodes(qe.path)}

----------------------------------------------------------------------------
(* The transcoder output of one PreBuffer: a thread that writes chunks into
   the ring and looks at the token between chunks *)

writerFrame == <<queueVars, randomVars, names, streams, entries, queue_prebuf, random_prebuf, prebuffers, pc, msg,
                 old_prebufs, tx, connected, pumpPc, buffer, sent, sendFailed,
                 updatesOpen>>

(* Reduction.  Nothing but its own transcoder reads or writes the token and
   the ring of a PreBuffer while it sits in queue_prebuf or random_prebuf:
   the scheduler touches it only after moving it to old_prebufs or to
   prebuffers, the pumps only after receiving its ring.  The steps its
   transcoder takes while it waits there commute with every step of the
   other threads, so each behaviour has an equivalent one in which the
   transcoder takes them right after the PreBuffer has left the slot; only
   those behaviours are generated. *)
Waiting(p) == p \in SeqToSet(queue_prebuf.bufs) \cup SeqToSet(random_prebuf.bufs)

(* the writer sees its token set and exits *)
WriterExit(p) ==
    /\ ~Waiting(p)
    /\ pb[p].wpc = "check"
    /\ pb[p].token
    /\ UNCHANGED writerFrame
    /\ pb' = Drop([pb EXCEPT ![p].wpc = "exited"])

(* the token is clear and there is input left: go on to write the next chunk *)
WriterNext(p) ==
    /\ ~Waiting(p)
    /\ pb[p].wpc = "check"
    /\ ~pb[p].token
    /\ pb[p].wr < TrackLen
    /\ UNCHANGED writerFrame
    /\ pb' = [pb EXCEPT ![p].wpc = "write"]

(* end of input (or a decode error): the transcoder marks the output complete *)
WriterFinish(p) ==
    /\ ~Waiting(p)
    /\ pb[p].wpc = "check"
    /\ ~pb[p].token
    /\ UNCHANGED writerFrame
    /\ pb' = Drop([pb EXCEPT ![p].token = TRUE, ![p].wpc = "exited"])

(* RingBuffer::write of one chunk; blocks while the ring is full *)
WriterWrite(p) ==
    /\ ~Waiting(p)
    /\ pb[p].wpc = "write"
    /\ RingLen(p) < RingCap
    /\ UNCHANGED writerFrame
    /\ pb' = [pb EXCEPT ![p].wr = @ + 1, ![p].wpc = "check"]

(* a write blocked on the full ring observes the cancel signal and gives up *)
WriterAbort(p) ==
    /\ ~Waiting(p)
    /\ pb[p].wpc = "write"
    /\ RingLen(p) = RingCap
    /\ pb[p].token
    /\ UNCHANGED writerFrame
    /\ pb' = Drop([pb EXCEPT ![p].wpc = "exited"])

----------------------------------------------------------------------------
(* The broadcast pump of stream i: play *)

pumpFrame == <<queueVars, randomVars, names, streams, entries, queue_prebuf, random_prebuf, prebuffers, pc, msg,
               old_prebufs, connected, updatesOpen>>

(* the bytes try_read(n) takes from ring p, as <<set, stream, index>> *)
TryRead(p, n) == [k \in 1 .. Min(n, RingLen(p)) |-> <<p[1], p[2], pb[p].rd + k>>]

(* line 116: the blocking recv of the first ring *)
PumpRecv(i) ==
    /\ pumpPc[i] = "recv"
    /\ UNCHANGED pumpFrame
    /\ UNCHANGED <<sent, sendFailed>>
    /\ IF tx[i] # <<>>
       THEN /\ buffer' = [buffer EXCEPT ![i] = Head(tx[i])]
            /\ tx' = [tx EXCEPT ![i] = Tail(@)]
            /\ pumpPc' = [pumpPc EXCEPT ![i] = "loop"]
       ELSE /\ ~connected /\ pc = "panicked"       \* recv() fails, unwrap panics
            /\ pumpPc' = [pumpPc EXCEPT ![i] = "panicked"]
            /\ UNCHANGED <<buffer, tx>>
    /\ pb' = pb

(* lines 117-130: one iteration of the loop.  sendOk is the outcome of
   conn.send, which play does not look at *)
PumpLoop(i, sendOk) ==
    /\ pumpPc[i] = "loop"
    /\ UNCHANGED pumpFrame
    /\ IF tx[i] = <<>> /\ ~connected
       THEN /\ pumpPc' = [pumpPc EXCEPT ![i] = "returned"]
            /\ buffer' = [buffer EXCEPT ![i] = NoRing]
            /\ sent' = [sent EXCEPT ![i] = <<>>]
            /\ UNCHANGED <<tx, sendFailed>>
            /\ pb' = Drop(pb)
       ELSE LET b == IF tx[i] # <<>> THEN Head(tx[i]) ELSE buffer[i]
                before == IF tx[i] # <<>> THEN <<>> ELSE sent[i]
            IN /\ buffer' = [buffer EXCEPT ![i] = b]
               /\ tx' = [tx EXCEPT ![i] = IF @ # <<>> THEN Tail(@) ELSE @]
               /\ UNCHANGED pumpPc
               /\ IF RingLen(b) > 0
                  THEN /\ sent' = [sent EXCEPT ![i] = before \o TryRead(b, Step)]
                       /\ sendFailed' = [sendFailed EXCEPT ![i] = @ \/ ~sendOk]
                       /\ pb' = Drop([pb EXCEPT ![b].rd = @ + Min(Step, RingLen(b))])
                  ELSE /\ sent' = [sent EXCEPT ![i] = before]
                       /\ UNCHANGED sendFailed
                       /\ pb' = Drop(pb)

----------------------------------------------------------------------------
(* the scheduler with room for one more prepared set, with an operator who
   queues usable sources only, playing sources whose transcoders reach the
   end of their input before they write anything *)
InitQueued == InitWith(<<"ogg">>, MoreNames)
NextQueued ==
    \/ Start
    \/ Promote
    \/ SongCheck
    \/ NoMessage
    \/ HandleSkip
    \/ HandleClear
    \/ ClearQueue
    \/ \E qe \in UsableEntries : HandleInsertHead(qe)
    \/ \E qe \in UsableEntries : HandleInsertTail(qe)
    \/ HandleRemoveHead
    \/ HandleRemoveTail
    \/ CancelStore
    \/ CancelLoop
    \/ \E p \in DOMAIN pb : WriterExit(p)
    \/ \E p \in DOMAIN pb : WriterFinish(p)
    \/ \E i \in StreamIdx : PumpRecv(i)
    \/ \E i \in StreamIdx : PumpLoop(i, TRUE)
SpecQueued == InitQueued /\ [][NextQueued]_vars

----------------------------------------------------------------------------
(* Queue (queue.rs).  Its methods run under the lock their caller holds, one
   at a time; start_next_tc is followed attempt by attempt. *)

MaxTries == 5       \* line 92: `if tries == 5`
MaxBuilds == 3      \* transcodes Queue starts before the model stops calling it
MaxDur == 2         \* durations input.duration() may report: 1 .. MaxDur

radioVars == <<names, streams, queue_prebuf, random_prebuf, prebuffers, pc, msg, old_prebufs,
               pb, tx, connected, pumpPc, buffer, sent, sendFailed, updatesOpen>>

(* line 108: path.split('.').last(), the text after the last '.', or the
   whole path when it has none *)
SplitLast(p) == p[Len(p)]

(* lines 130-137: the path of the head entry; <<>> stands for None *)
NextQueueBuffer == IF entries # <<>> THEN entries[1].path ELSE <<>>

(* lines 139-153: what random_buffer may return; <<>> when the request, the
   read or the parse failed *)
RandomBuffers == {<<>>} \cup Paths

(* lines 126-128: next_queue_buffer().or_else(random_buffer) *)
NextBuffer(rnd) == IF NextQueueBuffer # <<>> THEN NextQueueBuffer ELSE rnd
NextBufferFrom == IF NextQueueBuffer # <<>> THEN "queue" ELSE "random"

(* lines 155-184: Ok((dur, prebufs)) with dur = d, or Err when d = 0 (a
   kaeru call failed) *)
QueueInitiateTranscode(d, f) == IF d = 0 THEN NoNext ELSE SomeNext(d, counter, f)

(* a test of Queue.next that never asks for a build *)
NextIsNoneNever == FALSE

(* line 80: self.next.is_none() *)
NextIsNone == ~next.some

(* a budget of one attempt more *)
ExhaustedLate == tries = MaxTries + 1

(* line 92: `if tries == 5` *)
Exhausted == tries = MaxTries

(* lines 89-91: entry of start_next_tc, called by the method `who` *)
EnterStartNextTc(who) ==
    /\ qpc' = "start_next_tc"
    /\ caller' = who
    /\ tries' = 0
    /\ tc_path' = <<>>
    /\ ext' = ""
    /\ UNCHANGED <<next, dur, counter, taken>>

(* where the thread is once start_next_tc has returned *)
ReturnTo == IF caller = "get_next_tc" THEN "get_next_tc" ELSE "idle"

(* lines 92-103: the fallback; unwrap panics when its transcode fails *)
Fallback ==
    /\ qpc = "start_next_tc"
    /\ Exhausted
    /\ \E d \in 0 .. MaxDur :
         LET res == QueueInitiateTranscode(d, "fallback")
         IN IF res.some
            THEN /\ next' = res
                 /\ counter' = counter + 1
                 /\ qpc' = ReturnTo
            ELSE /\ qpc' = "panicked"
                 /\ UNCHANGED <<next, counter>>
    /\ UNCHANGED <<dur, tries, caller, tc_path, ext, taken, entries>>
    /\ UNCHANGED <<radioVars, randomVars>>

(* lines 104-122: one attempt with a real source *)
Attempt ==
    /\ qpc = "start_next_tc"
    /\ ~Exhausted
    /\ tries' = tries + 1
    /\ \E rnd \in RandomBuffers, d \in 0 .. MaxDur :
         LET p == NextBuffer(rnd)
             opened == p # <<>> /\ FileOpens(p)
             res == IF opened THEN QueueInitiateTranscode(d, NextBufferFrom) ELSE NoNext
         IN /\ tc_path' = p
            /\ ext' = IF opened THEN SplitLast(p) ELSE ""
            /\ IF res.some
               THEN /\ next' = res
                    /\ counter' = counter + 1
                    /\ qpc' = ReturnTo
               ELSE UNCHANGED <<next, counter, qpc>>
    /\ UNCHANGED <<dur, caller, taken, entries>>
    /\ UNCHANGED <<radioVars, randomVars>>

(* a method that ends without calling start_next_tc *)
NoBuild == UNCHANGED queueVars

(* lines 41-47 *)
Push(qe) ==
    /\ qpc = "idle"
    /\ counter < MaxBuilds
    /\ entries' = Append(entries, qe)
    /\ IF Len(entries') = 1 THEN EnterStartNextTc("push") ELSE NoBuild
    /\ UNCHANGED <<radioVars, randomVars>>

(* lines 49-53 *)
PushHead(qe) ==
    /\ qpc = "idle"
    /\ counter < MaxBuilds
    /\ entries' = <<qe>> \o entries
    /\ EnterStartNextTc("push_head")
    /\ UNCHANGED <<radioVars, randomVars>>

(* lines 55-60: Vec::pop of an empty Vec is None *)
Pop ==
    /\ qpc = "idle"
    /\ counter < MaxBuilds
    /\ entries' = IF entries = <<>> THEN <<>> ELSE SubSeq(entries, 1, Len(entries) - 1)
    /\ IF Len(entries') = 0 THEN EnterStartNextTc("pop") ELSE NoBuild
    /\ UNCHANGED <<radioVars, randomVars>>

(* lines 62-70 *)
PopHead ==
    /\ qpc = "idle"
    /\ counter < MaxBuilds
    /\ entries' = IF entries = <<>> THEN <<>> ELSE Tail(entries)
    /\ EnterStartNextTc("pop_head")
    /\ UNCHANGED <<radioVars, randomVars>>

(* lines 72-76 *)
Clear ==
    /\ qpc = "idle"
    /\ counter < MaxBuilds
    /\ entries' = <<>>
    /\ EnterStartNextTc("clear")
    /\ UNCHANGED <<radioVars, randomVars>>

(* lines 83-85: mem::replace(&mut self.next, None).unwrap(), dur, return *)
TakeNext ==
    IF next.some
    THEN /\ next' = NoNext
         /\ dur' = next.dur
         /\ taken' = next
         /\ qpc' = "idle"
         /\ UNCHANGED <<counter, tries, caller, tc_path, ext>>
    ELSE /\ qpc' = "panicked"
         /\ UNCHANGED <<next, dur, counter, tries, caller, tc_path, ext, taken>>

(* lines 78-86, up to the return or to the call of start_next_tc *)
GetNextTc ==
    /\ qpc = "idle"
    /\ next.some \/ counter < MaxBuilds
    /\ IF NextIsNone THEN EnterStartNextTc("get_next_tc") ELSE TakeNext
    /\ UNCHANGED <<entries, radioVars, randomVars>>

(* lines 83-85, after start_next_tc has returned to get_next_tc *)
GetNextTcTake ==
    /\ qpc = "get_next_tc"
    /\ TakeNext
    /\ UNCHANGED <<entries, radioVars, randomVars>>

NextQueue ==
    \/ \E qe \in NewEntries : Push(qe)
    \/ \E qe \in NewEntries : PushHead(qe)
    \/ Pop
    \/ PopHead
    \/ Clear
    \/ GetNextTc
    \/ GetNextTcTake
    \/ Attempt
    \/ Fallback
SpecQueue == Init /\ [][NextQueue]_vars

(* start_next_tc runs on a thread that is scheduled again and again *)
SpecQueueFair == SpecQueue /\ WF_vars(Attempt) /\ WF_vars(Fallback)

----------------------------------------------------------------------------
(* get_random_prebuf (radio.rs), followed attempt by attempt *)

RandomBudget == 100     \* line 174: `if counter == 100`

(* lines 104-112: what get_random_song may get: an entry with one of the
   paths, or <<>> when the request, the read or the decoding fails *)
RandomSongs == {<<>>} \cup Paths

randomFrame == <<queueVars, radioVars, entries>>

(* line 172: a call of get_random_prebuf begins *)
RandomCall ==
    /\ rpc \in {"idle", "returned"}
    /\ rpc' = "loop"
    /\ random_counter' = 0
    /\ fetches' = 0
    /\ UNCHANGED randomFrame

(* lines 174-176: the budget is used up *)
RandomExhausted ==
    /\ rpc = "loop"
    /\ random_counter = RandomBudget
    /\ rpc' = "panicked"
    /\ UNCHANGED <<random_counter, fetches>>
    /\ UNCHANGED randomFrame

(* lines 177-181: one attempt.  get_random_song unwraps every step of the
   request, so a failed one panics *)
RandomAttempt ==
    /\ rpc = "loop"
    /\ random_counter # RandomBudget
    /\ fetches' = fetches + 1
    /\ \E song \in RandomSongs :
         IF song = <<>>
         THEN /\ rpc' = "panicked"
              /\ UNCHANGED random_counter
         ELSE IF InitiateTranscode(song, StreamIdx, "a", 0).some
              THEN /\ rpc' = "returned"
                   /\ UNCHANGED random_counter
              ELSE /\ random_counter' = random_counter + 1
                   /\ UNCHANGED rpc
    /\ UNCHANGED randomFrame

NextRandom == RandomCall \/ RandomExhausted \/ RandomAttempt
SpecRandom == Init /\ [][NextRandom]_vars

----------------------------------------------------------------------------
Next ==
    \/ Start
    \/ Promote
    \/ SongCheck
    \/ NoMessage
    \/ HandleSkip
    \/ HandleClear
    \/ ClearQueue
    \/ \E qe \in NewEntries : HandleInsertHead(qe)
    \/ \E qe \in NewEntries : HandleInsertTail(qe)
    \/ HandleRemoveHead
    \/ HandleRemoveTail
    \/ CancelStore
    \/ CancelLoop
    \/ \E p \in DOMAIN pb : WriterExit(p)
    \/ \E p \in DOMAIN pb : WriterNext(p)
    \/ \E p \in DOMAIN pb : WriterFinish(p)
    \/ \E p \in DOMAIN pb : WriterWrite(p)
    \/ \E p \in DOMAIN pb : WriterAbort(p)
    \/ \E i \in StreamIdx : PumpRecv(i)
    \/ \E i \in StreamIdx : PumpLoop(i, TRUE)

Spec == Init /\ [][Next]_vars

(* every PreBuffer the single output can have *)
RingIds == SetNames \X {1}

(* a step of the transcoder output of PreBuffer p *)
WriterStep(p) ==
    /\ p \in DOMAIN pb
    /\ WriterExit(p) \/ WriterNext(p) \/ WriterFinish(p) \/ WriterWrite(p) \/ WriterAbort(p)

(* the system with an operator who only appends entries and clears the
   queue; the scheduler thread goes on with a cancel() it has begun, and
   every transcoder thread is scheduled again and again *)
NextCancel ==
    \/ Start
    \/ Promote
    \/ SongCheck
    \/ NoMessage
    \/ HandleClear
    \/ ClearQueue
    \/ \E qe \in NewEntries : HandleInsertTail(qe)
    \/ CancelStore
    \/ CancelLoop
    \/ \E p \in DOMAIN pb : WriterExit(p)
    \/ \E p \in DOMAIN pb : WriterNext(p)
    \/ \E p \in DOMAIN pb : WriterFinish(p)
    \/ \E p \in DOMAIN pb : WriterWrite(p)
    \/ \E p \in DOMAIN pb : WriterAbort(p)
    \/ \E i \in StreamIdx : PumpRecv(i)
    \/ \E i \in StreamIdx : PumpLoop(i, TRUE)
SpecFair ==
    /\ Init /\ [][NextCancel]_vars
    /\ WF_vars(CancelStore)
    /\ WF_vars(CancelLoop)
    /\ \A p \in RingIds : WF_vars(WriterStep(p))

(* the same system with an operator who may also drop its Sender *)
NextClose == Next \/ Disconnected
SpecClose == Init /\ [][NextClose]_vars

(* the same system with a sink whose connection may fail *)
NextSink == Next \/ \E i \in StreamIdx : PumpLoop(i, FALSE)
SpecSink == Init /\ [][NextSink]_vars

(* the two outputs of scenario S1, with an operator who sends nothing: no
   token is set before its transcoder finishes, so no writer sees a cancel *)
InitDuo == InitWith(<<"ogg", "mp3">>, SetNames)
NextDuo ==
    \/ Start
    \/ Promote
    \/ SongCheck
    \/ NoMessage
    \/ \E p \in DOMAIN pb : WriterNext(p)
    \/ \E p \in DOMAIN pb : WriterFinish(p)
    \/ \E p \in DOMAIN pb : WriterWrite(p)
    \/ \E i \in StreamIdx : PumpRecv(i)
    \/ \E i \in StreamIdx : PumpLoop(i, TRUE)
SpecDuo == InitDuo /\ [][NextDuo]_vars

----------------------------------------------------------------------------
(* Properties *)

Ids(q) == {q[k].id : k \in 1 .. Len(q)}

(* the scheduler is inside the song activity loop *)
InSong == pc \in {"song", "recv", "cancel_store", "cancel_loop", "clear"}

(* token and ring of every PreBuffer of the set being played *)
CurState == [k \in 1 .. Len(prebuffers.bufs) |-> pb[prebuffers.bufs[k]]]

(* a step of the scheduler that promotes a set *)
Promotes == pc = "boundary" /\ pc' = "song"

(* C1: whenever Insert(Head, qe) is received while a track plays, also with
   an empty queue and no queue-prepared set, and qe's source transcodes:
   the scheduler keeps running, the current set is untouched, queue_prebuf
   is rebuilt from qe; and a promoted queue-prepared set is the one built
   from the head entry, which leaves the queue at that promotion. *)
C1_InsertHeadIsPromotedNext ==
    [][ /\ \A qe \in NewEntries :
              (HandleInsertHead(qe) /\ Transcodes(qe.path)) =>
                  /\ pc' \in {"song", "cancel_store"}
                  /\ prebuffers' = prebuffers
                  /\ CurState' = CurState
                  /\ queue_prebuf'.some
                  /\ queue_prebuf'.src = qe.id
                  /\ entries' # <<>> /\ entries'[1] = qe
        /\ (Promotes /\ queue_prebuf.some) =>
                  /\ prebuffers' = queue_prebuf
                  /\ entries # <<>> /\ entries[1].id = queue_prebuf.src
                  /\ queue_prebuf.src \notin Ids(entries')
      ]_vars

(* C2: every prepared set held as queue_prebuf, random_prebuf or as the
   current set has exactly |streams| PreBuffers, the i-th encoded for
   streams[i], and every ring handed to pump i is one encoded for stream i. *)
Aligned(set) ==
    set.some => /\ Len(set.bufs) = Len(streams)
                /\ \A i \in 1 .. Len(set.bufs) : set.bufs[i][2] = i
C2_PreparedSetsAligned ==
    /\ Aligned(queue_prebuf)
    /\ Aligned(random_prebuf)
    /\ Aligned(prebuffers)
    /\ \A i \in StreamIdx :
          /\ \A k \in 1 .. Len(tx[i]) : tx[i][k][2] = i
          /\ buffer[i] # NoRing => buffer[i][2] = i

(* C3: the scheduler leaves the song activity loop only when every
   PreBuffer of the current set is done or a Skip has just been handled, it
   hands rings to the pumps only then, and handling Clear, Insert or
   Remove leaves it in the loop with the current set untouched. *)
C3_TrackEndsOnlyWhenDoneOrSkipped ==
    [][ /\ (InSong /\ ~InSong') =>
              /\ pc' = "boundary"
              /\ (pc = "song" /\ AllDone) \/ (pc = "recv" /\ msg'.type = "Skip")
        /\ (\E i \in StreamIdx : Len(tx'[i]) > Len(tx[i])) =>
              /\ pc = "boundary"
              /\ AllDone \/ msg.type = "Skip"
        /\ (pc \in {"recv", "cancel_store", "clear"} /\ pc' # pc /\ msg'.type # "Skip") =>
              /\ InSong'
              /\ prebuffers' = prebuffers
              /\ CurState' = CurState
      ]_vars

(* C4: when the scheduler has handled Clear, the queue is empty,
   queue_prebuf is absent, every PreBuffer that was in it has its token set
   and its ring empty, the handler has not touched the current set, and
   queue_prebuf stays absent until an Insert, so that the next promoted set
   is random_prebuf. *)
C4_ClearCancelsPreparedSet ==
    [][ /\ (pc = "clear" /\ pc' = "song") =>
              /\ entries' = <<>>
              /\ ~queue_prebuf'.some
              /\ \A p \in SeqToSet(msg.old) : pb[p].token /\ RingLen(p) = 0
        /\ (msg'.type = "Clear" /\ pc \in {"recv", "cancel_store", "clear"} /\ pc' # pc) =>
              /\ prebuffers' = prebuffers
              /\ CurState' = CurState
        /\ (~queue_prebuf.some /\ queue_prebuf'.some) =>
              pc = "recv" /\ msg'.type \in {"InsertHead", "InsertTail"}
        /\ (Promotes /\ ~queue_prebuf.some) => prebuffers' = random_prebuf
      ]_vars

(* C5: handling Skip sets the token of every PreBuffer of the current set
   and leaves the queue alone; the promotion that follows takes
   queue_prebuf if present, otherwise random_prebuf, and sends every pump a
   ring of the new track; the skipped entry is not in the queue again. *)
C5_SkipPromotesNextToEveryPump ==
    [][ /\ (pc = "recv" /\ pc' = "boundary") =>
              /\ msg'.type = "Skip"
              /\ \A k \in 1 .. Len(prebuffers.bufs) : pb'[prebuffers.bufs[k]].token
              /\ entries' = entries
        /\ (Promotes /\ msg.type = "Skip") =>
              /\ prebuffers' = IF queue_prebuf.some THEN queue_prebuf ELSE random_prebuf
              /\ \A i \in StreamIdx :
                    /\ Len(tx'[i]) = Len(tx[i]) + 1
                    /\ tx'[i][Len(tx'[i])][1] = prebuffers'.track
              /\ prebuffers.src # 0 => prebuffers.src \notin Ids(entries')
      ]_vars

(* C6: Insert(Tail, qe) into a non-empty queue and Remove(Tail) on a queue
   of more than one entry leave queue_prebuf and every PreBuffer as they
   were, start no cancel, and change the queue only at its tail. *)
C6_TailOpsLeavePreparedSet ==
    [][ /\ \A qe \in NewEntries :
              (HandleInsertTail(qe) /\ entries # <<>>) =>
                  /\ queue_prebuf' = queue_prebuf
                  /\ pb' = pb
                  /\ old_prebufs' = <<>> /\ pc' = "song"
                  /\ entries' = Append(entries, qe)
        /\ (HandleRemoveTail /\ Len(entries) > 1) =>
                  /\ queue_prebuf' = queue_prebuf
                  /\ pb' = pb
                  /\ old_prebufs' = <<>> /\ pc' = "song"
                  /\ entries' = SubSeq(entries, 1, Len(entries) - 1)
      ]_vars

(* a Remove(Tail) has been handled on a queue of two entries whose head has
   a prepared set *)
C6_Witness ==
    /\ msg.type = "RemoveTail"
    /\ pc = "song"
    /\ Len(entries) = 1
    /\ queue_prebuf.some /\ queue_prebuf.bufs # <<>>
    /\ queue_prebuf.src = entries[1].id

(* C7: once cancel() has returned for a PreBuffer, its ring is empty and
   stays empty. *)
C7_NoByteAfterCancel == \A p \in DOMAIN pb : pb[p].ret => RingLen(p) = 0

(* C8: what a pump has handed to the sink since it took its ring is exactly
   the bytes taken out of that ring so far, in write order from the first
   on; a ring is handed to a pump once; and for a track that ended without
   Skip the transcoder has finished and nothing it wrote is left behind. *)
C8_SinkGetsRingPrefixes ==
    \A i \in StreamIdx :
        /\ \A k \in 1 .. Len(tx[i]) :
              /\ tx[i][k] # buffer[i]
              /\ \A j \in 1 .. Len(tx[i]) : tx[i][j] = tx[i][k] => j = k
              /\ pb[tx[i][k]].rd = 0
              /\ pb[tx[i][k]].end = "done" => pb[tx[i][k]].wr = 0
        /\ buffer[i] # NoRing =>
              /\ pb[buffer[i]].rd <= pb[buffer[i]].wr
              /\ sent[i] = [k \in 1 .. pb[buffer[i]].rd |-> <<buffer[i][1], buffer[i][2], k>>]
              /\ pb[buffer[i]].end = "done" =>
                    /\ pb[buffer[i]].wpc = "exited"
                    /\ Len(sent[i]) = pb[buffer[i]].wr

(* a pump has sent all the bytes of a track of more than one byte that ended
   without Skip *)
C8_Witness ==
    \E i \in StreamIdx :
        /\ buffer[i] # NoRing
        /\ pb[buffer[i]].end = "done"
        /\ Len(sent[i]) >= 2

(* C9: once the operator channel is closed the scheduler promotes no
   further track. *)
C9_ClosedChannelStopsScheduler == [][~updatesOpen => ~Promotes]_vars

(* C10: after a conn.send of a pump has failed, that pump sends nothing more. *)
C10_PumpStopsAfterFailedSend ==
    [][\A i \in StreamIdx : sendFailed[i] => ~(sent'[i] # sent[i] /\ sent'[i] # <<>>)]_vars

(* get_next_tc has handed out the set in next *)
Returned ==
    /\ next.some
    /\ qpc' = "idle"
    /\ next' = NoNext
    /\ taken' = next
    /\ dur' = next.dur

(* C11: get_next_tc returns a prepared set from any state: with next absent
   it first runs start_next_tc, then it moves the set out, so that next is
   None on return and dur is the duration of the set; the unwrap never
   fails, the only panic being the one of a failed fallback transcode. *)
C11_GetNextTcReturnsPreparedSet ==
    [][ /\ GetNextTc => IF next.some
                        THEN Returned
                        ELSE qpc' = "start_next_tc" /\ caller' = "get_next_tc"
        /\ GetNextTcTake => Returned
        /\ qpc' = "get_next_tc" => next'.some
        /\ (qpc' = "panicked" /\ qpc # "panicked") => qpc = "start_next_tc" /\ tries = MaxTries
      ]_vars

(* get_next_tc found next absent, start_next_tc fell back to the fallback
   payload, and get_next_tc has returned that set *)
C11_Witness ==
    /\ qpc = "idle"
    /\ caller = "get_next_tc"
    /\ taken.some /\ taken.from = "fallback"
    /\ dur = taken.dur
    /\ ~next.some

(* C12: push(qe) appends qe, and calls start_next_tc exactly when the queue
   was empty before and no prepared set exists; otherwise it returns with
   next unchanged. *)
C12_PushBuildsOnlyWithoutPreparedSet ==
    [][ \A qe \in NewEntries :
          Push(qe) =>
            /\ entries' = Append(entries, qe)
            /\ IF entries = <<>> /\ ~next.some
               THEN qpc' = "start_next_tc"
               ELSE qpc' = "idle" /\ next' = next
      ]_vars

(* C14: every call of start_next_tc ends: each pass of its loop is one
   attempt with a real source and raises tries, there are at most MaxTries
   of them, the first that succeeds sets next and returns, after MaxTries
   failures next is set from the fallback, and the call returns with next
   present unless the fallback transcode fails. *)
C14_StartNextTcTerminates ==
    /\ [](qpc = "start_next_tc" => tries <= MaxTries)
    /\ [][ /\ Attempt =>
                /\ tries < MaxTries
                /\ tries' = tries + 1
                /\ IF next' # next
                   THEN next'.some /\ next'.from # "fallback" /\ qpc' = ReturnTo
                   ELSE qpc' = "start_next_tc"
           /\ Fallback =>
                /\ tries = MaxTries
                /\ \/ qpc' = "panicked" /\ next' = next
                   \/ next'.some /\ next'.from = "fallback" /\ qpc' = ReturnTo
           /\ (qpc = "start_next_tc" /\ qpc' \notin {"start_next_tc", "panicked"}) => next'.some
         ]_vars
    /\ (qpc = "start_next_tc") ~> (qpc # "start_next_tc")

(* start_next_tc has returned after MaxTries failed attempts with the set
   built from the fallback *)
C14_Witness ==
    /\ qpc = "idle"
    /\ tries = MaxTries
    /\ next.some /\ next.from = "fallback"

(* C17: a path without extension is skipped: start_next_tc does not call
   initiate_transcode for it and goes on to the next attempt, and the
   scheduler's initiate_transcode returns None for it. *)
C17_NoExtensionIsSkipped ==
    /\ [](\A p \in Paths : \A ok \in SUBSET StreamIdx :
            Extension(p) = "" => ~InitiateTranscode(p, ok, "a", 0).some)
    /\ [][ (Attempt /\ tc_path' # <<>> /\ Extension(tc_path') = "") =>
               /\ ext' = ""
               /\ qpc' = "start_next_tc"
               /\ next' = next
         ]_vars

(* C13: a prebuild drops from the queue only entries whose source cannot
   be opened or transcoded: a usable entry leaves the queue only by being
   promoted, removed or cleared, and a usable entry that is inserted stays. *)
C13_PrebuildDropsOnlyFailingHead ==
    [][ /\ \A k \in 1 .. Len(entries) :
              (Transcodes(entries[k].path) /\ entries[k].id \notin Ids(entries')) =>
                  \/ pc = "boundary" /\ k = 1
                  \/ pc = "recv" /\ msg'.type = "RemoveHead" /\ k = 1
                  \/ pc = "recv" /\ msg'.type = "RemoveTail" /\ k = Len(entries)
                  \/ pc = "clear"
        /\ \A qe \in NewEntries :
              ((HandleInsertHead(qe) \/ HandleInsertTail(qe)) /\ Transcodes(qe.path)) =>
                  qe.id \in Ids(entries')
      ]_vars

(* C16: whenever queue_prebuf is present it was built from the entry at the
   head of the queue; a promotion of queue_prebuf removes that entry from
   the queue; the random-prepared set is promoted only when queue_prebuf is
   absent. *)
C16_QueuePrebufIsForHead ==
    /\ [](queue_prebuf.some => entries # <<>> /\ queue_prebuf.src = entries[1].id)
    /\ [][ /\ (Promotes /\ queue_prebuf.some) =>
                 /\ prebuffers' = queue_prebuf
                 /\ entries[1].id = prebuffers'.src
                 /\ prebuffers'.src \notin Ids(entries')
           /\ (Promotes /\ ~queue_prebuf.some) => prebuffers' = random_prebuf
           /\ (Promotes /\ prebuffers'.src = 0) => ~queue_prebuf.some
         ]_vars

(* the set of a queue entry has been promoted while a second entry waits
   with its own set *)
C16_Witness ==
    /\ pc = "song"
    /\ msg.type = "none"
    /\ prebuffers.some /\ prebuffers.src # 0
    /\ queue_prebuf.some /\ queue_prebuf.bufs # <<>>
    /\ entries # <<>> /\ entries[1].id = queue_prebuf.src

(* C20: at every track boundary and every pass of the song activity loop
   queue_prebuf is present if and only if the queue is non-empty; so the
   promotion never removes from an empty queue and Remove(Head) never
   unwraps an absent queue_prebuf. *)
C20_QueuePrebufIffNonEmpty ==
    /\ [](pc \in {"boundary", "song", "recv"} => (queue_prebuf.some <=> entries # <<>>))
    /\ [][ /\ HandleRemoveHead => pc' # "panicked"
           /\ (pc = "boundary" /\ queue_prebuf.some) => pc' # "panicked"
         ]_vars

(* Remove(Head) has been handled on a queue of one entry: its set was
   unwrapped and cancelled and the queue is empty *)
C20_Witness ==
    /\ pc = "song"
    /\ msg.type = "RemoveHead"
    /\ entries = <<>>
    /\ ~queue_prebuf.some
    /\ \E p \in DOMAIN pb : pb[p].ret

(* C15: get_random_prebuf raises its fatal error only after RandomBudget
   failed attempts in a row, a failure of the oracle being one of them, and
   never sends more than RandomBudget requests. *)
C15_OracleFailureIsRetried ==
    /\ fetches <= RandomBudget
    /\ rpc = "panicked" => random_counter = RandomBudget /\ fetches = RandomBudget

(* the rings the scheduler's cancel() reads or has read *)
Cancelled == SeqToSet(old_prebufs) \cup SeqToSet(msg.old) \cup {p \in DOMAIN pb : pb[p].ret}

(* the rings handed to pump i *)
Piped(i) == SeqToSet(tx[i]) \cup ({buffer[i]} \ {NoRing})

(* C18: a ring has one reader: no ring handed to a pump or belonging to the
   set being played is read by cancel(), no ring cancel() has read is handed
   to a pump, no ring is handed to two pumps; bytes leave a ring only by the
   pump that holds it or by the cancel() in progress on it, and enter it
   only by its own transcoder output. *)
C18_OneReaderPerRing ==
    /\ [](\A i \in StreamIdx :
            /\ Cancelled \cap (Piped(i) \cup SeqToSet(prebuffers.bufs)) = {}
            /\ \A j \in StreamIdx : i # j => Piped(i) \cap Piped(j) = {})
    /\ [][ \A p \in DOMAIN pb \cap DOMAIN pb' :
             /\ pb'[p].rd # pb[p].rd =>
                  \/ \E i \in StreamIdx : buffer'[i] = p /\ pumpPc[i] = "loop"
                  \/ pc = "cancel_loop" /\ old_prebufs # <<>> /\ Head(old_prebufs) = p
             /\ pb'[p].wr # pb[p].wr => pb[p].wpc = "write" /\ pb'[p].wr = pb[p].wr + 1
         ]_vars

(* cancel() has read bytes out of the ring of a replaced set while a pump
   has read bytes out of the ring it holds *)
C18_Witness ==
    /\ \E p \in DOMAIN pb : pb[p].ret /\ pb[p].rd > 0
    /\ \E i \in StreamIdx : buffer[i] # NoRing /\ pb[buffer[i]].rd > 0 /\ ~pb[buffer[i]].ret

(* C19: under fairness every cancel() the scheduler begins returns, and
   the transcoder of every PreBuffer handed to cancel() exits, also one that
   was blocked on the full ring. *)
C19_CancelTerminates ==
    /\ (pc \in {"cancel_store", "cancel_loop"}) ~> (pc \notin {"cancel_store", "cancel_loop"})
    /\ \A p \in RingIds :
          (p \in SeqToSet(old_prebufs)) ~> (p \notin DOMAIN pb \/ pb[p].wpc = "exited")

(* cancel() has drained bytes out of a ring and returned, and the transcoder
   of that ring has exited *)
C19_Witness ==
    /\ pc = "clear"
    /\ \E p \in SeqToSet(msg.old) : pb[p].ret /\ pb[p].rd > 0 /\ pb[p].wpc = "exited"

====
